---------------------------- MODULE Spec2Model ----------------------------
(***************************************************************************)
(* A model of the st7735-async driver (src/src/lib.rs): the ST7735IF       *)
(* transaction layer, the ST7735 framebuffer driver and the standalone     *)
(* Frame.  Every public method is one action; the transport, the two pins  *)
(* and the delay provider are observed through the event trace of the      *)
(* method that last ran.                                                   *)
(***************************************************************************)
EXTENDS Integers, Sequences, FiniteSets, TLC

(***************************************************************************)
(* Bounds of the model.                                                    *)
(***************************************************************************)
\* Largest WIDTH / HEIGHT generic parameter the model instantiates.
MaxDim == 3
\* Largest number of pixels WIDTH * HEIGHT of a panel of the model.
MaxPixels == 6

(***************************************************************************)
(* Machine integers.                                                       *)
(***************************************************************************)
\* u16::MAX + 1
U16 == 65536
\* `(color & 0xff00) >> 8` and `color & 0xff`
High(color) == (color \div 256) % 256
Low(color) == color % 256

\* u16::to_be_bytes
to_be_bytes(v) == << (v \div 256) % 256, v % 256 >>

(***************************************************************************)
(* Enumerations.                                                           *)
(***************************************************************************)
\* enum Orientation, with its `as u8` value
Orientation == {"Portrait", "Landscape", "PortraitSwapped", "LandscapeSwapped"}
OrientationByte(o) ==
    CASE o = "Portrait" -> 0
      [] o = "Landscape" -> 96
      [] o = "PortraitSwapped" -> 192
      [] o = "LandscapeSwapped" -> 160

\* enum PixelColor, with its `as u8` value
PixelColor == {"RGB", "BGR"}
PixelColorByte(p) == IF p = "RGB" THEN 0 ELSE 8

\* Bitwise OR of two bytes (`orientation as u8 | self.rgb as u8`)
RECURSIVE BitOr(_, _)
BitOr(a, b) ==
    IF a = 0 THEN b
    ELSE IF b = 0 THEN a
    ELSE (IF a % 2 = 1 \/ b % 2 = 1 THEN 1 ELSE 0) + 2 * BitOr(a \div 2, b \div 2)

\* Output pin levels
Levels == {"low", "high"}

(***************************************************************************)
(* Inputs the actions draw from.                                           *)
(***************************************************************************)
\* WIDTH and HEIGHT generic parameters
Dims == 0 .. MaxDim
\* The panels <<WIDTH, HEIGHT>> of the model
Panels == {p \in Dims \X Dims : p[1] * p[2] <= MaxPixels}
\* u16 coordinates: everything around the panel, and u16::MAX
Coords == (0 .. MaxDim) \cup {U16 - 1}
\* raw Rgb565 values: red (0xF800) and 0x12EF
Colors == {63488, 4847}
\* the color set_pixel is called with
PixelColors == {4847}

\* pub const fn buffer_size(width, height)
buffer_size(width, height) == width * height * 2

\* The buffer lengths N a panel is instantiated with.  Nothing evaluates
\* CHECK_N, so N is not tied to WIDTH and HEIGHT: the right size, an empty
\* buffer, one byte short and one byte long.
BufferLens(w, h) ==
    {buffer_size(w, h), 0, buffer_size(w, h) + 1}
        \cup (IF buffer_size(w, h) >= 1 THEN {buffer_size(w, h) - 1} ELSE {})

VARIABLES
    WIDTH,            \* const WIDTH: u16
    HEIGHT,           \* const HEIGHT: u16
    N,                \* const N: usize
    overflow_checks,  \* build profile: TRUE = overflow panics, FALSE = it wraps
    rgb,              \* ST7735IF.rgb
    inverted,         \* ST7735IF.inverted
    orientation,      \* ST7735IF.orientation
    dx, dy,           \* ST7735IF.dx, ST7735IF.dy
    dc, rst,          \* level of the data/command pin and of the reset pin
    buffer,           \* ST7735.buffer, indexed from 0
    frame,            \* a Frame<N>: width, height, orientation, buffer
    trace,            \* pin, transport and delay events of the last method
    last,             \* the method that last ran: op, args, pre, res
    panicked          \* the program has panicked (it never resumes)

vars == << WIDTH, HEIGHT, N, overflow_checks, rgb, inverted, orientation,
           dx, dy, dc, rst, buffer, frame, trace, last, panicked >>

\* `[0; N]`
ZeroBuffer(n) == [i \in 0 .. n - 1 |-> 0]

\* const BUFFER_SIZE
BUFFER_SIZE == buffer_size(WIDTH, HEIGHT)
\* const CHECK_N: the assertion's condition.  No code path names CHECK_N, so
\* it is never evaluated and `new` does not depend on it.
CHECK_N == N = BUFFER_SIZE

(***************************************************************************)
(* Framebuffer: set_pixel and clear.                                       *)
(***************************************************************************)
\* Marks a coordinate the orientation's bound check returns early on.
Rejected == 0 - 1

\* Mutant: the Portrait branch strides by WIDTH, like the Landscape one
PixelIndexStrideWidth(o, w, h, x, y) ==
    IF o \in {"Landscape", "LandscapeSwapped"}
    THEN IF x >= w THEN Rejected ELSE (y * w) + x
    ELSE IF y >= w THEN Rejected ELSE (y * w) + x

\* Mutant: the bound checks accept the bound itself (`>` for `>=`)
PixelIndexOffByOne(o, w, h, x, y) ==
    IF o \in {"Landscape", "LandscapeSwapped"}
    THEN IF x > w THEN Rejected ELSE (y * w) + x
    ELSE IF y > w THEN Rejected ELSE (y * h) + x

\* ST7735::set_pixel, the `match` computing the pixel index (before `* 2`)
PixelIndex(o, w, h, x, y) ==
    IF o \in {"Landscape", "LandscapeSwapped"}
    THEN IF x >= w THEN Rejected ELSE (y * w) + x
    ELSE IF y >= w THEN Rejected ELSE (y * h) + x

\* Frame::set_pixel, the `match` computing the pixel index (before `* 2`)
FramePixelIndex(o, width, height, x, y) ==
    IF o \in {"Landscape", "LandscapeSwapped"}
    THEN IF x >= width THEN Rejected ELSE (y * width) + x
    ELSE IF y >= height THEN Rejected ELSE (y * height) + x

\* The tail of set_pixel: `* 2`, the split of the color, the
\* `idx >= self.buffer.len() - 1` test and the two stores.  For u16
\* coordinates and the panels of the model idx stays far below usize::MAX.
\* On an empty buffer `len() - 1` panics with overflow checks; without them
\* it wraps to usize::MAX (odd, above every idx), the test passes and the
\* store `self.buffer[idx]` panics on the index: a panic in either build.
StorePixel(buf, n, pix, color) ==
    LET idx == pix * 2
    IN  IF pix = Rejected THEN [panic |-> FALSE, buffer |-> buf]
        ELSE IF n = 0 THEN [panic |-> TRUE, buffer |-> buf]
        ELSE IF idx >= n - 1 THEN [panic |-> FALSE, buffer |-> buf]
        ELSE [panic |-> FALSE,
              buffer |-> [buf EXCEPT ![idx] = High(color), ![idx + 1] = Low(color)]]

\* The same tail in Frame::set_pixel
FrameStorePixel(buf, n, pix, color) ==
    LET idx == pix * 2
    IN  IF pix = Rejected THEN [panic |-> FALSE, buffer |-> buf]
        ELSE IF n = 0 THEN [panic |-> TRUE, buffer |-> buf]
        ELSE IF idx >= n - 1 THEN [panic |-> FALSE, buffer |-> buf]
        ELSE [panic |-> FALSE,
              buffer |-> [buf EXCEPT ![idx] = High(color), ![idx + 1] = Low(color)]]

\* The loop of DrawTarget::clear
ClearBuffer(n, c) == [i \in 0 .. n - 1 |-> IF i % 2 = 0 THEN High(c) ELSE Low(c)]

\* ST7735::set_pixel(x, y, color)
set_pixel(x, y, color) ==
    LET r == StorePixel(buffer, N,
                        PixelIndex(orientation, WIDTH, HEIGHT, x, y), color)
    IN  /\ ~panicked
        /\ buffer' = r.buffer
        /\ panicked' = r.panic
        /\ trace' = << >>
        /\ last' = [op |-> "set_pixel", args |-> << x, y, color >>, pre |-> buffer,
                    res |-> IF r.panic THEN "panic" ELSE "ok"]
        /\ UNCHANGED << WIDTH, HEIGHT, N, overflow_checks, rgb, inverted,
                        orientation, dx, dy, dc, rst, frame >>

\* <ST7735 as DrawTarget>::clear(color)
clear(color) ==
    /\ ~panicked
    /\ buffer' = ClearBuffer(N, color)
    /\ trace' = << >>
    /\ last' = [op |-> "clear", args |-> << color >>, pre |-> buffer, res |-> "ok"]
    /\ UNCHANGED << WIDTH, HEIGHT, N, overflow_checks, rgb, inverted,
                    orientation, dx, dy, dc, rst, frame, panicked >>

\* `RawU16::from(color).into_inner()` of an Rgb565: 5 bits of red, 6 of
\* green, 5 of blue
IntoRaw(color) == color.r * 2048 + color.g * 32 + color.b

\* `pos.x as u16` of an i32
AsU16(v) == ((v % U16) + U16) % U16

\* `self.bounding_box().contains(pos)`: the rectangle at (0, 0) of
\* OriginDimensions::size(), which is WIDTH x HEIGHT in every orientation
Contains(w, h, pos) == pos[1] >= 0 /\ pos[1] < w /\ pos[2] >= 0 /\ pos[2] < h

\* The `filter` and `for_each` of draw_iter over pixels[i ..], each pixel
\* << pos, color >>: a panic in set_pixel ends the iteration
RECURSIVE DrawPixels(_, _, _, _, _, _, _)
DrawPixels(o, w, h, n, buf, pixels, i) ==
    IF i > Len(pixels) THEN [panic |-> FALSE, buffer |-> buf]
    ELSE IF ~Contains(w, h, pixels[i][1])
         THEN DrawPixels(o, w, h, n, buf, pixels, i + 1)
         ELSE LET pos == pixels[i][1]
                  r == StorePixel(buf, n,
                                  PixelIndex(o, w, h, AsU16(pos[1]), AsU16(pos[2])),
                                  IntoRaw(pixels[i][2]))
              IN  IF r.panic THEN r
                  ELSE DrawPixels(o, w, h, n, r.buffer, pixels, i + 1)

\* <ST7735 as DrawTarget>::draw_iter(pixels)
draw_iter(pixels) ==
    LET r == DrawPixels(orientation, WIDTH, HEIGHT, N, buffer, pixels, 1)
    IN  /\ ~panicked
        /\ buffer' = r.buffer
        /\ panicked' = r.panic
        /\ trace' = << >>
        /\ last' = [op |-> "draw_iter", args |-> << pixels >>, pre |-> buffer,
                    res |-> IF r.panic THEN "panic" ELSE "ok"]
        /\ UNCHANGED << WIDTH, HEIGHT, N, overflow_checks, rgb, inverted,
                        orientation, dx, dy, dc, rst, frame >>

\* Frame::set_pixel(x, y, color)
Frame_set_pixel(x, y, color) ==
    LET r == FrameStorePixel(frame.buffer, N,
                 FramePixelIndex(frame.orientation, frame.width, frame.height, x, y),
                 color)
    IN  /\ ~panicked
        /\ frame' = [frame EXCEPT !.buffer = r.buffer]
        /\ panicked' = r.panic
        /\ trace' = << >>
        /\ last' = [op |-> "Frame::set_pixel", args |-> << x, y, color >>,
                    pre |-> frame.buffer,
                    res |-> IF r.panic THEN "panic" ELSE "ok"]
        /\ UNCHANGED << WIDTH, HEIGHT, N, overflow_checks, rgb, inverted,
                        orientation, dx, dy, dc, rst, buffer >>

\* <Frame as DrawTarget>::clear(color)
Frame_clear(color) ==
    /\ ~panicked
    /\ frame' = [frame EXCEPT !.buffer = ClearBuffer(N, color)]
    /\ trace' = << >>
    /\ last' = [op |-> "Frame::clear", args |-> << color >>, pre |-> frame.buffer,
                res |-> "ok"]
    /\ UNCHANGED << WIDTH, HEIGHT, N, overflow_checks, rgb, inverted,
                    orientation, dx, dy, dc, rst, buffer, panicked >>

\* ST7735::set_pixel(x, y, color) and then Frame::set_pixel(x, y, color) with
\* the same arguments; a panic in the first call ends the program
set_pixel_on_both(x, y, color) ==
    LET r == StorePixel(buffer, N,
                        PixelIndex(orientation, WIDTH, HEIGHT, x, y), color)
        f == FrameStorePixel(frame.buffer, N,
                 FramePixelIndex(frame.orientation, frame.width, frame.height, x, y),
                 color)
    IN  /\ ~panicked
        /\ buffer' = r.buffer
        /\ frame' = IF r.panic THEN frame ELSE [frame EXCEPT !.buffer = f.buffer]
        /\ panicked' = (r.panic \/ f.panic)
        /\ trace' = << >>
        /\ last' = [op |-> "set_pixel_on_both", args |-> << x, y, color >>,
                    pre |-> buffer,
                    res |-> IF r.panic \/ f.panic THEN "panic" ELSE "ok"]
        /\ UNCHANGED << WIDTH, HEIGHT, N, overflow_checks, rgb, inverted,
                        orientation, dx, dy, dc, rst >>

\* <ST7735 as DrawTarget>::clear(color) and then
\* <Frame as DrawTarget>::clear(color)
clear_on_both(color) ==
    /\ ~panicked
    /\ buffer' = ClearBuffer(N, color)
    /\ frame' = [frame EXCEPT !.buffer = ClearBuffer(N, color)]
    /\ trace' = << >>
    /\ last' = [op |-> "clear_on_both", args |-> << color >>, pre |-> buffer,
                res |-> "ok"]
    /\ UNCHANGED << WIDTH, HEIGHT, N, overflow_checks, rgb, inverted,
                    orientation, dx, dy, dc, rst, panicked >>

(***************************************************************************)
(* Transaction layer: what a method does to the pins, the transport and    *)
(* the delay provider, as a list of steps that runs until a transport      *)
(* write fails or the method panics.                                       *)
(***************************************************************************)
\* `instruction as u8` for the instructions the driver issues
Instruction(name) ==
    CASE name = "SWRESET" -> 1
      [] name = "SLPOUT" -> 17
      [] name = "INVOFF" -> 32
      [] name = "INVON" -> 33
      [] name = "DISPON" -> 41
      [] name = "CASET" -> 42
      [] name = "RASET" -> 43
      [] name = "RAMWR" -> 44
      [] name = "MADCTL" -> 54
      [] name = "COLMOD" -> 58
      [] name = "FRMCTR1" -> 177
      [] name = "FRMCTR2" -> 178
      [] name = "FRMCTR3" -> 179
      [] name = "INVCTR" -> 180
      [] name = "PWCTR1" -> 192
      [] name = "PWCTR2" -> 193
      [] name = "PWCTR3" -> 194
      [] name = "PWCTR4" -> 195
      [] name = "PWCTR5" -> 196
      [] name = "VMCTR1" -> 197

\* The steps of a method.  A write records the level of the data/command
\* pin at the time it is made, whether the transport accepted it, and what
\* the slice handed to the transport carries: an instruction opcode
\* ("opcode"), the parameters of an instruction ("params") or a pixel
\* buffer ("pixels").
PinStep(pin, level) ==
    [kind |-> pin, level |-> level, bytes |-> << >>, ms |-> 0, ok |-> TRUE,
     carries |-> ""]
WriteStep(carries, bytes) ==
    [kind |-> "write", level |-> "", bytes |-> bytes, ms |-> 0, ok |-> TRUE,
     carries |-> carries]
DelayStep(ms) ==
    [kind |-> "delay", level |-> "", bytes |-> << >>, ms |-> ms, ok |-> TRUE,
     carries |-> ""]
PanicStep ==
    [kind |-> "panic", level |-> "", bytes |-> << >>, ms |-> 0, ok |-> TRUE,
     carries |-> ""]

\* `buf[..params.len()].copy_from_slice(params)` on the 8-byte scratch
\* buffer, then `spi.write(&buf[..params.len()])`: a slice longer than the
\* scratch buffer panics.
ScratchWrite(params) ==
    IF Len(params) > 8 THEN << PanicStep >> ELSE << WriteStep("params", params) >>

\* ST7735IF::write_command(instruction, params)
write_command(instruction, params) ==
    << PinStep("dc", "low"), WriteStep("opcode", << Instruction(instruction) >>) >>
        \o (IF params # << >>
            THEN << PinStep("dc", "high") >> \o ScratchWrite(params)
            ELSE << >>)

\* Mutant: start_data leaves the data/command line where it is
StartDataSkipped == << >>

\* ST7735IF::start_data
start_data == << PinStep("dc", "high") >>

\* ST7735IF::write_data(data)
write_data(data) == ScratchWrite(data)

\* u16 `a + b` / `a - b`: the value, or Overflow when the build checks
\* overflow and the result leaves the u16 range
Overflow == 0 - 1
U16Arith(v, checks) ==
    IF v >= 0 /\ v < U16 THEN v ELSE IF checks THEN Overflow ELSE v % U16

\* ST7735IF::set_address_window(sx, sy, ex, ey), with the offset (odx, ody);
\* an argument that is already Overflow panicked in the caller
set_address_window_steps(sx, sy, ex, ey, odx, ody, checks) ==
    LET sxd == U16Arith(sx + odx, checks)
        exd == U16Arith(ex + odx, checks)
        syd == U16Arith(sy + ody, checks)
        eyd == U16Arith(ey + ody, checks)
    IN  IF Overflow \in {sx, sy, ex, ey} THEN << PanicStep >>
        ELSE write_command("CASET", << >>) \o start_data
             \o (IF Overflow \in {sxd, exd} THEN << PanicStep >>
                 ELSE write_data(to_be_bytes(sxd) \o to_be_bytes(exd))
                      \o write_command("RASET", << >>) \o start_data
                      \o (IF Overflow \in {syd, eyd} THEN << PanicStep >>
                          ELSE write_data(to_be_bytes(syd) \o to_be_bytes(eyd))))

\* A buffer as the byte string the transport is handed
Bytes(buf, n) == [i \in 1 .. n |-> buf[i - 1]]

\* Mutant: the pixel bytes follow the window without the RAMWR command
FlushWithoutMemoryWrite(w, h, odx, ody, checks, bytes) ==
    set_address_window_steps(0, 0, U16Arith(w - 1, checks), U16Arith(h - 1, checks),
                             odx, ody, checks)
        \o start_data \o << WriteStep("pixels", bytes) >>

\* Mutant: flush_buffer opens the window with the two axes exchanged
FlushBufferSwapsAxes(w, h, odx, ody, checks, buf) ==
    set_address_window_steps(0, 0, U16Arith(h - 1, checks), U16Arith(w - 1, checks),
                             odx, ody, checks)
        \o write_command("RAMWR", << >>) \o start_data \o << WriteStep("pixels", buf) >>

\* ST7735::flush_buffer(buf): the same calls as flush, with `buf` handed to
\* the transport
flush_buffer_steps(w, h, odx, ody, checks, buf) ==
    set_address_window_steps(0, 0, U16Arith(w - 1, checks), U16Arith(h - 1, checks),
                             odx, ody, checks)
        \o write_command("RAMWR", << >>) \o start_data \o << WriteStep("pixels", buf) >>

\* The body of ST7735::flush, and of ST7735IF::flush_frame with the frame's
\* dimensions and buffer: the window (0, 0)-(w - 1, h - 1), RAMWR, data mode,
\* and the pixel bytes in one write
flush_steps(w, h, odx, ody, checks, bytes) ==
    set_address_window_steps(0, 0, U16Arith(w - 1, checks), U16Arith(h - 1, checks),
                             odx, ody, checks)
        \o write_command("RAMWR", << >>) \o start_data \o << WriteStep("pixels", bytes) >>

\* Mutant: the reset pulse is inverted (low, high, low)
HardResetInverted ==
    << PinStep("rst", "low"), DelayStep(10), PinStep("rst", "high"), DelayStep(10),
       PinStep("rst", "low") >>

\* ST7735IF::hard_reset
hard_reset_steps ==
    << PinStep("rst", "high"), DelayStep(10), PinStep("rst", "low"), DelayStep(10),
       PinStep("rst", "high") >>

\* struct Command / Command::new
Command(instruction, params, delay_time) ==
    [instruction |-> instruction, params |-> params, delay_time |-> delay_time]

\* Mutant: the inversion command does not follow `inverted`
InversionAlwaysOff(inv) == "INVOFF"

\* `if inverted { Instruction::INVON } else { Instruction::INVOFF }`
InversionInstruction(inv) == IF inv THEN "INVON" ELSE "INVOFF"

\* The `commands` array of ST7735IF::init
commands(inv, color) ==
    << Command("SWRESET", << >>, 200),
       Command("SLPOUT", << >>, 200),
       Command("FRMCTR1", << 1, 44, 45 >>, 0),
       Command("FRMCTR2", << 1, 44, 45 >>, 0),
       Command("FRMCTR3", << 1, 44, 45, 1, 44, 45 >>, 0),
       Command("INVCTR", << 7 >>, 0),
       Command("PWCTR1", << 162, 2, 132 >>, 0),
       Command("PWCTR2", << 197 >>, 0),
       Command("PWCTR3", << 10, 0 >>, 0),
       Command("PWCTR4", << 138, 42 >>, 0),
       Command("PWCTR5", << 138, 238 >>, 0),
       Command("VMCTR1", << 14 >>, 0),
       Command(InversionInstruction(inv), << >>, 0),
       Command("MADCTL", << PixelColorByte(color) >>, 0),
       Command("COLMOD", << 5 >>, 0),
       Command("DISPON", << >>, 200) >>

\* The body of the `for` loop of ST7735IF::init for one command
command_steps(c) ==
    << PinStep("dc", "low"), WriteStep("opcode", << Instruction(c.instruction) >>) >>
        \o (IF c.params # << >>
            THEN << PinStep("dc", "high") >> \o ScratchWrite(c.params)
            ELSE << >>)
        \o (IF c.delay_time > 0 THEN << DelayStep(c.delay_time) >> ELSE << >>)

\* The `for` loop of ST7735IF::init over commands[i ..]
RECURSIVE loop_steps(_, _)
loop_steps(cs, i) ==
    IF i > Len(cs) THEN << >> ELSE command_steps(cs[i]) \o loop_steps(cs, i + 1)

\* ST7735IF::set_orientation(o): the MADCTL command
set_orientation_steps(o, color) ==
    write_command("MADCTL", << BitOr(OrientationByte(o), PixelColorByte(color)) >>)

\* ST7735IF::init: hard reset, the commands, the configured orientation
init_steps(inv, color, o) ==
    hard_reset_steps \o loop_steps(commands(inv, color), 1)
        \o set_orientation_steps(o, color)

\* Mutant: a failed transport write is ignored (`.ok()` for `?`)
IgnoreError(ok) == TRUE

\* `.map_err(Error::Comm)?` after a transport write: the method goes on only
\* when the write succeeded
Proceeds(ok) == ok

\* The positions of the transport writes in a list of steps
WritePositions(steps) == {i \in 1 .. Len(steps) : steps[i].kind = "write"}

\* The number of transport writes in a list of steps
WriteCount(steps) == Cardinality(WritePositions(steps))

\* The transport's behaviours a method can meet: no write fails (0), or the
\* write at one position of its steps does
FailPoints(steps) == {0} \cup WritePositions(steps)

\* The least element of a non-empty set of numbers
Least(S) == CHOOSE m \in S : \A k \in S : m <= k

\* Runs the steps with the data/command pin at `level` and the transport
\* failing the write at position failAt (0: none fails), up to the first
\* step that ends the method: a panic, or a write after which it does not
\* proceed.  The events that happened, and how the method ended: "ok",
\* "comm" (the error of the failed write is returned) or "panic".
Run(steps, level, failAt) ==
    LET n == Len(steps)
        stops == {i \in 1 .. n :
                    \/ steps[i].kind = "panic"
                    \/ i = failAt /\ steps[i].kind = "write" /\ ~Proceeds(FALSE)}
        stop == IF stops = {} THEN n + 1 ELSE Least(stops)
        panics == stop <= n /\ steps[stop].kind = "panic"
        done == IF stop > n THEN n ELSE IF panics THEN stop - 1 ELSE stop
        \* how far back the data/command pin was last set (i: never)
        Back(i) ==
            CHOOSE d \in 1 .. i :
                /\ d = i \/ steps[i - d].kind = "dc"
                /\ \A k \in i - d + 1 .. i - 1 : steps[k].kind # "dc"
        LevelAt(i) == IF Back(i) = i THEN level ELSE steps[i - Back(i)].level
    IN  [trace |-> [i \in 1 .. done |->
                       IF steps[i].kind = "write"
                       THEN [steps[i] EXCEPT !.level = LevelAt(i), !.ok = (i # failAt)]
                       ELSE steps[i]],
         res |-> IF panics THEN "panic" ELSE IF stop <= n THEN "comm" ELSE "ok"]

\* The level a pin is left at: that of its last event, else the one it had
PinAfter(pin, level, tr) ==
    LET sets == {j \in 1 .. Len(tr) : tr[j].kind = pin}
    IN  IF sets = {} THEN level
        ELSE tr[CHOOSE j \in sets : \A k \in j + 1 .. Len(tr) : tr[k].kind # pin].level

\* What every transport method does to the state: the events, the pins,
\* a panic.  The method is given the transport's behaviour as failAt.
Transact(op, args, steps, failAt) ==
    LET r == Run(steps, dc, failAt)
    IN  /\ ~panicked
        /\ failAt \in FailPoints(steps)
        /\ trace' = r.trace
        /\ dc' = PinAfter("dc", dc, r.trace)
        /\ rst' = PinAfter("rst", rst, r.trace)
        /\ panicked' = (r.res = "panic")
        /\ last' = [op |-> op, args |-> args, pre |-> buffer, res |-> r.res]

\* ST7735::init / ST7735IF::init(delay)
init(failAt) ==
    /\ Transact("init", << >>, init_steps(inverted, rgb, orientation), failAt)
    /\ UNCHANGED << WIDTH, HEIGHT, N, overflow_checks, rgb, inverted, orientation,
                    dx, dy, buffer, frame >>

\* ST7735IF::hard_reset(delay)
hard_reset ==
    /\ Transact("hard_reset", << >>, hard_reset_steps, 0)
    /\ UNCHANGED << WIDTH, HEIGHT, N, overflow_checks, rgb, inverted, orientation,
                    dx, dy, buffer, frame >>

\* Mutant: set_orientation never stores the new orientation
KeepsOrientation(o, old, res) == old

\* Mutant: set_orientation stores the new orientation before the command
StoresBeforeCommand(o, old, res) == o

\* `self.orientation = orientation` after `write_command(..).await?`: the
\* assignment is reached only when the command went through
StoredOrientation(o, old, res) == IF res = "ok" THEN o ELSE old

\* ST7735IF::set_orientation(o)
set_orientation(o, failAt) ==
    /\ Transact("set_orientation", << o >>, set_orientation_steps(o, rgb), failAt)
    /\ orientation' = StoredOrientation(o, orientation, last'.res)
    /\ UNCHANGED << WIDTH, HEIGHT, N, overflow_checks, rgb, inverted,
                    dx, dy, buffer, frame >>

\* Mutant: set_offset also drives the data/command line low
SetOffsetDrivesLine(ndx, ndy) ==
    /\ ~panicked
    /\ dx' = ndx
    /\ dy' = ndy
    /\ dc' = "low"
    /\ trace' = << >>
    /\ last' = [op |-> "set_offset", args |-> << ndx, ndy >>, pre |-> buffer,
                res |-> "ok"]
    /\ UNCHANGED << WIDTH, HEIGHT, N, overflow_checks, rgb, inverted, orientation,
                    rst, buffer, frame, panicked >>

\* ST7735::set_offset / ST7735IF::set_offset(dx, dy)
set_offset(ndx, ndy) ==
    /\ ~panicked
    /\ dx' = ndx
    /\ dy' = ndy
    /\ trace' = << >>
    /\ last' = [op |-> "set_offset", args |-> << ndx, ndy >>, pre |-> buffer,
                res |-> "ok"]
    /\ UNCHANGED << WIDTH, HEIGHT, N, overflow_checks, rgb, inverted, orientation,
                    dc, rst, buffer, frame, panicked >>

\* ST7735IF::set_address_window(sx, sy, ex, ey)
set_address_window(sx, sy, ex, ey, failAt) ==
    /\ Transact("set_address_window", << sx, sy, ex, ey >>,
                set_address_window_steps(sx, sy, ex, ey, dx, dy, overflow_checks),
                failAt)
    /\ UNCHANGED << WIDTH, HEIGHT, N, overflow_checks, rgb, inverted, orientation,
                    dx, dy, buffer, frame >>

\* ST7735::flush
flush(failAt) ==
    /\ Transact("flush", << >>,
                flush_steps(WIDTH, HEIGHT, dx, dy, overflow_checks, Bytes(buffer, N)),
                failAt)
    /\ UNCHANGED << WIDTH, HEIGHT, N, overflow_checks, rgb, inverted, orientation,
                    dx, dy, buffer, frame >>

\* ST7735::flush_buffer(buf)
flush_buffer(buf, failAt) ==
    /\ Transact("flush_buffer", << buf >>,
                flush_buffer_steps(WIDTH, HEIGHT, dx, dy, overflow_checks, buf), failAt)
    /\ UNCHANGED << WIDTH, HEIGHT, N, overflow_checks, rgb, inverted, orientation,
                    dx, dy, buffer, frame >>

\* ST7735IF::flush_frame(frame): `frame.width as u16 - 1`
flush_frame(failAt) ==
    /\ Transact("flush_frame", << >>,
                flush_steps(frame.width % U16, frame.height % U16, dx, dy,
                            overflow_checks, Bytes(frame.buffer, N)),
                failAt)
    /\ UNCHANGED << WIDTH, HEIGHT, N, overflow_checks, rgb, inverted, orientation,
                    dx, dy, buffer, frame >>

(***************************************************************************)
(* Construction.                                                           *)
(***************************************************************************)
\* ST7735::new / ST7735IF::new with a Config, and Frame::new for the same
\* panel: any WIDTH, HEIGHT and N compile, the buffer starts zeroed, the
\* offset at (0, 0).  The pins come from the caller at either level.
New(w, h, n, checks, cfg, dcLevel, rstLevel) ==
    /\ WIDTH = w
    /\ HEIGHT = h
    /\ N = n
    /\ overflow_checks = checks
    /\ rgb = cfg.rgb
    /\ inverted = cfg.inverted
    /\ orientation = cfg.orientation
    /\ dx = 0
    /\ dy = 0
    /\ dc = dcLevel
    /\ rst = rstLevel
    /\ buffer = ZeroBuffer(n)
    /\ frame = [width |-> w, height |-> h, orientation |-> cfg.orientation,
                buffer |-> ZeroBuffer(n)]
    /\ trace = << >>
    /\ last = [op |-> "new", args |-> << >>, pre |-> ZeroBuffer(n), res |-> "ok"]
    /\ panicked = FALSE

\* struct Config
Config == [rgb : PixelColor, inverted : BOOLEAN, orientation : Orientation]
\* impl Default for Config
DefaultConfig == [rgb |-> "RGB", inverted |-> FALSE, orientation |-> "Landscape"]

Init ==
    \E p \in Panels, checks \in BOOLEAN, cfg \in Config,
       dcLevel \in Levels, rstLevel \in Levels :
        \E n \in BufferLens(p[1], p[2]) :
            New(p[1], p[2], n, checks, cfg, dcLevel, rstLevel)

(***************************************************************************)
(* The framebuffer specification: every panel and orientation, the pixel   *)
(* operations of the driver.  The other Config fields and the pins are not *)
(* read by these operations and stay at their defaults.                    *)
(***************************************************************************)
InitPixel ==
    \E p \in Panels, checks \in BOOLEAN, o \in Orientation :
        \E n \in BufferLens(p[1], p[2]) :
            New(p[1], p[2], n, checks, [DefaultConfig EXCEPT !.orientation = o],
                "high", "high")

DoSetPixel == \E x \in Coords, y \in Coords, c \in PixelColors : set_pixel(x, y, c)
DoClear == \E c \in Colors : clear(c)
DoFrameSetPixel ==
    \E x \in Coords, y \in Coords, c \in PixelColors : Frame_set_pixel(x, y, c)
DoFrameClear == \E c \in Colors : Frame_clear(c)

NextPixel == DoSetPixel \/ DoClear
SpecPixel == InitPixel /\ [][NextPixel]_vars

InitFrame == InitPixel
NextFrame == DoFrameSetPixel \/ DoFrameClear
SpecFrame == InitFrame /\ [][NextFrame]_vars

(***************************************************************************)
(* The initialization specification: every Config and pin level, one       *)
(* panel; init, hard_reset and set_orientation under every transport       *)
(* failure.                                                                *)
(***************************************************************************)
InitInit ==
    \E cfg \in Config, dcLevel \in Levels, rstLevel \in Levels :
        New(1, 1, 2, TRUE, cfg, dcLevel, rstLevel)

DoInit ==
    \E failAt \in FailPoints(init_steps(inverted, rgb, orientation)) : init(failAt)
DoHardReset == hard_reset
DoSetOrientation ==
    \E o \in Orientation :
        \E failAt \in FailPoints(set_orientation_steps(o, rgb)) :
            set_orientation(o, failAt)

NextInit == DoInit \/ DoHardReset \/ DoSetOrientation
SpecInit == InitInit /\ [][NextInit]_vars

(***************************************************************************)
(* The flush specification: every panel and build, the default Config;     *)
(* the offset, the address window and the three flushes under every        *)
(* transport failure, with clear to give the buffers contents.             *)
(***************************************************************************)
\* u16 offsets <<dx, dy>>: none, small ones, one axis only, the largest
Offsets == {<< 0, 0 >>, << 1, 2 >>, << 1, 0 >>, << 0, 1 >>, << U16 - 1, U16 - 1 >>}
\* u16 windows <<sx, sy, ex, ey>>: four different coordinates with different
\* high and low bytes, and windows that reach u16::MAX on either axis
Windows ==
    {<< 258, 515, 772, 1029 >>, << 0, U16 - 1, U16 - 1, 0 >>,
     << U16 - 1, 258, 0, U16 - 1 >>}
\* caller-supplied buffers for flush_buffer
ExternalBuffers == {<< >>, << 18, 239, 248, 0 >>}
\* The panels of the flush specification: flush reads WIDTH and HEIGHT only
\* as WIDTH - 1 and HEIGHT - 1
FlushPanels == {<< 0, 1 >>, << 1, 0 >>, << 1, 2 >>, << 2, 1 >>}

InitFlush ==
    \E p \in FlushPanels, checks \in BOOLEAN :
        \E n \in BufferLens(p[1], p[2]) :
            New(p[1], p[2], n, checks, DefaultConfig, "high", "high")

DoSetOffset == \E o \in Offsets : set_offset(o[1], o[2])
\* A window is at most 10 steps and a flush at most 14
DoSetAddressWindow ==
    \E win \in Windows, failAt \in 0 .. 10 :
        set_address_window(win[1], win[2], win[3], win[4], failAt)
DoFlush == \E failAt \in 0 .. 14 : flush(failAt)
DoFlushBuffer == \E buf \in ExternalBuffers, failAt \in 0 .. 14 : flush_buffer(buf, failAt)
DoFlushFrame == \E failAt \in 0 .. 14 : flush_frame(failAt)

NextFlush ==
    DoSetOffset \/ DoSetAddressWindow \/ DoFlush \/ DoFlushBuffer \/ DoFlushFrame
        \/ DoClear
SpecFlush == InitFlush /\ [][NextFlush]_vars

(***************************************************************************)
(* The orientation specification: panels that are not square, either       *)
(* channel order; set_orientation under every transport failure, and       *)
(* set_pixel.                                                              *)
(***************************************************************************)
OrientPanels == {<< 1, 2 >>, << 2, 1 >>, << 1, 3 >>, << 3, 1 >>}

InitOrient ==
    \E p \in OrientPanels, color \in PixelColor, o \in Orientation :
        \E n \in BufferLens(p[1], p[2]) :
            New(p[1], p[2], n, TRUE,
                [rgb |-> color, inverted |-> FALSE, orientation |-> o],
                "high", "high")

NextOrient == DoSetOrientation \/ DoSetPixel
SpecOrient == InitOrient /\ [][NextOrient]_vars

(***************************************************************************)
(* The drawing specification: small panels in every orientation and        *)
(* draw_iter over every list of at most MaxDrawn pixels.                   *)
(***************************************************************************)
\* Longest pixel list handed to draw_iter
MaxDrawn == 2
DrawPanels == {<< 1, 1 >>, << 2, 1 >>, << 1, 2 >>}
\* Rgb565 colors: red (raw 0xF800) and the one of raw value 0x12EF
Red == [r |-> 31, g |-> 0, b |-> 0]
Teal == [r |-> 2, g |-> 23, b |-> 15]
\* Pixels << position, color >>: positions on and around the panels,
\* negative ones included
DrawnPixels ==
    ({<< 0 - 1, 0 >>, << 0, 0 - 1 >>, << 0, 0 >>, << 1, 0 >>, << 0, 1 >>, << 1, 1 >>,
      << 2, 0 >>, << 0, 2 >>} \X {Red})
        \cup ({<< 0, 0 >>, << 1, 0 >>} \X {Teal})
PixelLists ==
    UNION {[1 .. k -> DrawnPixels] : k \in 0 .. MaxDrawn}

InitDraw ==
    \E p \in DrawPanels, o \in Orientation :
        \E n \in BufferLens(p[1], p[2]) :
            New(p[1], p[2], n, TRUE, [DefaultConfig EXCEPT !.orientation = o],
                "high", "high")

DoDrawIter == \E pixels \in PixelLists : draw_iter(pixels)

NextDraw == DoDrawIter
SpecDraw == InitDraw /\ [][NextDraw]_vars

(***************************************************************************)
(* The pair specification: a driver and a Frame of the same width, height, *)
(* orientation and buffer, given the same set_pixel and clear calls.       *)
(***************************************************************************)
PairPanels == {<< 1, 2 >>, << 2, 1 >>, << 2, 2 >>, << 1, 3 >>, << 3, 1 >>}

InitPair ==
    \E p \in PairPanels, o \in Orientation :
        \E n \in BufferLens(p[1], p[2]) :
            New(p[1], p[2], n, TRUE, [DefaultConfig EXCEPT !.orientation = o],
                "high", "high")

DoSetPixelOnBoth ==
    \E x \in Coords, y \in Coords, c \in PixelColors : set_pixel_on_both(x, y, c)
DoClearOnBoth == \E c \in Colors : clear_on_both(c)

NextPair == DoSetPixelOnBoth \/ DoClearOnBoth
SpecPair == InitPair /\ [][NextPair]_vars

(***************************************************************************)
(* The wire specification: every method that writes to the transport, in   *)
(* any order and under every transport failure, from either level of the   *)
(* data/command line, in both builds.                                      *)
(***************************************************************************)
WirePanels == {<< 0, 1 >>, << 1, 2 >>}

InitWire ==
    \E p \in WirePanels, checks \in BOOLEAN, dcLevel \in Levels :
        New(p[1], p[2], buffer_size(p[1], p[2]), checks, DefaultConfig,
            dcLevel, "high")

NextWire ==
    DoInit \/ DoSetOrientation \/ DoSetAddressWindow \/ DoFlush \/ DoFlushBuffer
        \/ DoFlushFrame
SpecWire == InitWire /\ [][NextWire]_vars

(***************************************************************************)
(* The whole driver.                                                       *)
(***************************************************************************)
Next ==
    \/ DoSetPixel \/ DoClear \/ DoFrameSetPixel \/ DoFrameClear
    \/ DoInit \/ DoHardReset \/ DoSetOrientation
    \/ DoSetOffset \/ DoSetAddressWindow \/ DoFlush \/ DoFlushBuffer \/ DoFlushFrame
    \/ DoDrawIter \/ DoSetPixelOnBoth \/ DoClearOnBoth
Spec == Init /\ [][Next]_vars

(***************************************************************************)
(* Claims about the framebuffer (checked under SpecPixel).                 *)
(***************************************************************************)
\* The arguments of the set_pixel call that last ran
ArgX == last.args[1]
ArgY == last.args[2]
ArgColor == last.args[3]
IsLandscape == orientation \in {"Landscape", "LandscapeSwapped"}
\* (x, y) lies on the declared WIDTH x HEIGHT panel
InPanel(x, y) == x < WIDTH /\ y < HEIGHT
\* The byte offset the specification gives a pixel
SlotOffset(x, y) ==
    IF IsLandscape THEN 2 * (y * WIDTH + x) ELSE 2 * (y * HEIGHT + x)
\* The buffer holds color c, high byte first, at offset off, and differs from
\* the buffer before the call nowhere else
WrittenAt(off, c) ==
    /\ off + 1 < N
    /\ DOMAIN buffer = 0 .. N - 1
    /\ buffer[off] = c \div 256
    /\ buffer[off + 1] = c % 256
    /\ \A i \in (0 .. N - 1) \ {off, off + 1} : buffer[i] = last.pre[i]
\* The documented scenario: a 160 x 128 Landscape panel (N = 40960) and
\* set_pixel(159, 127, 0xF800) on its zeroed buffer
ScenarioResult ==
    StorePixel(ZeroBuffer(40960), 40960,
               PixelIndex("Landscape", 160, 128, 159, 127), 63488)
\* The byte offsets at which the scenario's buffer is not zero
ScenarioChanged == {i \in 0 .. 40959 : ScenarioResult.buffer[i] # 0}
\* The scenario as documented: 0xF8, 0x00 at offset 40718, nothing else
\* changed (0x00 leaves the second byte zero), and set_pixel(160, 0, ...)
\* rejected
ScenarioAsClaimed ==
    /\ ~ScenarioResult.panic
    /\ ScenarioResult.buffer[40718] = 248
    /\ ScenarioResult.buffer[40719] = 0
    /\ ScenarioChanged = {40718}
    /\ PixelIndex("Landscape", 160, 128, 160, 0) = Rejected
\* The scenario at the offset 2*(127*160+159) = 40958
ScenarioAt40958 ==
    /\ ~ScenarioResult.panic
    /\ ScenarioResult.buffer[40958] = 248
    /\ ScenarioResult.buffer[40959] = 0
    /\ ScenarioChanged = {40958}
    /\ PixelIndex("Landscape", 160, 128, 160, 0) = Rejected

\* The general statement of C1 as stated: on a panel with N = WIDTH*HEIGHT*2,
\* set_pixel(x, y, c) with x < WIDTH and y < HEIGHT stores c, high byte
\* first, at 2*(y*WIDTH+x) (Landscape) or 2*(y*HEIGHT+x) (Portrait) and
\* changes no other byte.
InPanelWriteAsClaimed ==
    (last.op = "set_pixel" /\ CHECK_N /\ InPanel(ArgX, ArgY))
        => (~panicked /\ WrittenAt(SlotOffset(ArgX, ArgY), ArgColor))

\* C1 as stated: the general statement, and the documented scenario with
\* its offset 40718.
C1_AsClaimed == InPanelWriteAsClaimed /\ ScenarioAsClaimed

\* C1 amended: the general statement for the coordinates that also pass the
\* Portrait bound check of the code, y < WIDTH (all of them when
\* HEIGHT <= WIDTH); and the documented scenario at offset
\* 2*(127*160+159) = 40958.
C1_SetPixelWrites ==
    /\ (last.op = "set_pixel" /\ CHECK_N /\ InPanel(ArgX, ArgY)
            /\ (IsLandscape \/ ArgY < WIDTH))
        => (~panicked /\ WrittenAt(SlotOffset(ArgX, ArgY), ArgColor))
    /\ ScenarioAt40958

\* C1 witness: a Portrait write off the first row and column of a panel
\* that is not square, into a buffer that already holds another color
C1_Witness ==
    /\ last.op = "set_pixel" /\ CHECK_N /\ InPanel(ArgX, ArgY)
    /\ ~IsLandscape /\ WIDTH # HEIGHT /\ ArgY >= 1 /\ ArgX >= 1
    /\ WrittenAt(SlotOffset(ArgX, ArgY), ArgColor)
    /\ \E i \in DOMAIN last.pre : last.pre[i] \notin {0, ArgColor \div 256, ArgColor % 256}

\* (x, y) is at or beyond the bound the orientation checks
BeyondBound(x, y) == IF IsLandscape THEN x >= WIDTH ELSE y >= WIDTH

\* C2: set_pixel at or beyond the orientation's bound (x >= WIDTH in
\* Landscape, y >= WIDTH in Portrait) leaves the whole buffer as it was.
C2_BeyondBoundNoOp ==
    (last.op = "set_pixel" /\ BeyondBound(ArgX, ArgY))
        => (~panicked /\ buffer = last.pre)

\* C2 witness: a call exactly at the bound, on a buffer with room for the
\* pixel index the call would compute and with earlier contents
C2_Witness ==
    /\ last.op = "set_pixel" /\ BeyondBound(ArgX, ArgY)
    /\ (IF IsLandscape THEN ArgX = WIDTH ELSE ArgY = WIDTH)
    /\ SlotOffset(ArgX, ArgY) + 1 < N
    /\ buffer # ZeroBuffer(N)
    /\ buffer = last.pre

\* C3: set_pixel never panics, for any u16 coordinates, any orientation and
\* any buffer length (N = 0 included); a write with idx >= len - 1 is dropped.
C3_SetPixelNeverPanics ==
    last.op = "set_pixel"
        => /\ ~panicked
           /\ DOMAIN buffer = 0 .. N - 1
           /\ (~BeyondBound(ArgX, ArgY)
                   /\ PixelIndex(orientation, WIDTH, HEIGHT, ArgX, ArgY) * 2 >= N - 1)
               => buffer = last.pre

\* C4: after clear(c) every one of the WIDTH*HEIGHT pixel slots reads c.
C4_ClearFillsEverySlot ==
    last.op = "clear"
        => \A i \in 0 .. WIDTH * HEIGHT - 1 :
               /\ 2 * i + 1 < N
               /\ buffer[2 * i] = last.args[1] \div 256
               /\ buffer[2 * i + 1] = last.args[1] % 256

\* What clear does establish: every byte of the N-byte buffer follows the
\* high/low pattern, so the claim holds on every panel with N = WIDTH*HEIGHT*2.
ClearFillsBuffer ==
    last.op = "clear"
        => /\ DOMAIN buffer = 0 .. N - 1
           /\ \A i \in 0 .. N - 1 :
                  buffer[i] = IF i % 2 = 0 THEN last.args[1] \div 256
                              ELSE last.args[1] % 256
           /\ CHECK_N => C4_ClearFillsEverySlot

\* The buffer after clear(d) and then set_pixel(x, y, c), from the current one
AfterClearSet(d, x, y, c) ==
    StorePixel(ClearBuffer(N, d), N, PixelIndex(orientation, WIDTH, HEIGHT, x, y), c)

\* C5: for in-bounds (x, y), set_pixel(x, y, c); clear(d); set_pixel(x, y, c)
\* completes and leaves the bytes of the pixel's slot as they were after
\* the first set_pixel.
C5_RoundTrip ==
    (last.op = "set_pixel" /\ InPanel(ArgX, ArgY))
        => /\ ~panicked
           /\ \A d \in Colors \cup {0, 65535} :
                  LET r == AfterClearSet(d, ArgX, ArgY, ArgColor)
                      off == SlotOffset(ArgX, ArgY)
                  IN  /\ ~r.panic
                      /\ \A i \in {off, off + 1} \cap (0 .. N - 1) :
                             r.buffer[i] = buffer[i]

\* The round trip on the buffers that are non-empty and of even length: the
\* cases of C5 that do not rest on a buffer of the wrong size.
RoundTripWhenSized ==
    (N > 0 /\ N % 2 = 0) => C5_RoundTrip

\* C6: no driver and no Frame exists whose buffer length differs from
\* width*height*2.
C6_BufferSizeInvariant ==
    /\ CHECK_N
    /\ DOMAIN buffer = 0 .. BUFFER_SIZE - 1
    /\ DOMAIN frame.buffer = 0 .. buffer_size(frame.width, frame.height) - 1


(***************************************************************************)
(* Claims about the transactions (checked under SpecInit and SpecFlush).   *)
(***************************************************************************)
IsWrite(e) == e.kind = "write"
IsDataWrite(e) == e.kind = "write" /\ e.level = "high"
IsDelay(e) == e.kind = "delay"
IsFailedWrite(e) == e.kind = "write" /\ ~e.ok
\* The transport writes of a trace, in order, each as << pin level, bytes >>:
\* level "low" is an instruction opcode, "high" is data
WritesOf(tr) ==
    LET w == SelectSeq(tr, IsWrite)
    IN  [i \in 1 .. Len(w) |-> << w[i].level, w[i].bytes >>]
\* The positions of the instruction opcodes in a trace
OpcodePositions(tr) ==
    {i \in 1 .. Len(tr) : tr[i].kind = "write" /\ tr[i].level = "low"}
\* The k-th instruction of a trace: from its opcode to the event before the
\* next opcode
InstructionAt(tr, k) ==
    LET ops == OpcodePositions(tr)
        Nth(m) == CHOOSE i \in ops : Cardinality({j \in ops : j < i}) = m - 1
        end == IF k = Cardinality(ops) THEN Len(tr) ELSE Nth(k + 1) - 1
    IN  SubSeq(tr, Nth(k), end)
\* An instruction as the tuple << opcode, params, delay >>: params is << >>
\* without a data write, delay is 0 without a delay
InstructionTuple(seg) ==
    LET data == SelectSeq(seg, IsDataWrite)
        delays == SelectSeq(seg, IsDelay)
    IN  << seg[1].bytes[1],
           IF data = << >> THEN << >> ELSE data[1].bytes,
           IF delays = << >> THEN 0 ELSE delays[1].ms >>
\* The trace as its ordered list of << opcode, params, delay >> tuples
InstructionTuples(tr) ==
    [k \in 1 .. Cardinality(OpcodePositions(tr)) |->
        InstructionTuple(InstructionAt(tr, k))]
\* Every instruction of the trace is one opcode byte, at most one data write
\* and at most one delay, and the delay comes after the writes
TuplesAreWhole(tr) ==
    \A k \in 1 .. Cardinality(OpcodePositions(tr)) :
        LET seg == InstructionAt(tr, k)
        IN  /\ Len(seg[1].bytes) = 1
            /\ Len(SelectSeq(seg, IsWrite)) <= 2
            /\ Len(SelectSeq(seg, IsDelay)) <= 1
            /\ \A i \in 1 .. Len(seg) : \A j \in i + 1 .. Len(seg) :
                   seg[i].kind = "delay" => seg[j].kind # "write"

\* The reset instruction with its 200 ms settle delay
ResetTuple == << << 1, << >>, 200 >> >>
\* The fifteen documented instructions, from sleep-out to display-on
SleepOutToDisplayOn(inv, color) ==
    << << 17, << >>, 200 >>,
       << 177, << 1, 44, 45 >>, 0 >>,
       << 178, << 1, 44, 45 >>, 0 >>,
       << 179, << 1, 44, 45, 1, 44, 45 >>, 0 >>,
       << 180, << 7 >>, 0 >>,
       << 192, << 162, 2, 132 >>, 0 >>,
       << 193, << 197 >>, 0 >>,
       << 194, << 10, 0 >>, 0 >>,
       << 195, << 138, 42 >>, 0 >>,
       << 196, << 138, 238 >>, 0 >>,
       << 197, << 14 >>, 0 >>,
       << IF inv THEN 33 ELSE 32, << >>, 0 >>,
       << 54, << IF color = "BGR" THEN 8 ELSE 0 >>, 0 >>,
       << 58, << 5 >>, 0 >>,
       << 41, << >>, 200 >> >>
\* The memory-access-control instruction that issues orientation o
OrientationTuple(o, color) ==
    << << 54,
          << (CASE o = "Portrait" -> 0 [] o = "Landscape" -> 96
                [] o = "PortraitSwapped" -> 192 [] o = "LandscapeSwapped" -> 160)
             + (IF color = "BGR" THEN 8 ELSE 0) >>,
          0 >> >>
\* The hard reset that opens init: the reset pin high, low and high again,
\* 10 ms apart
HardResetEvents ==
    << PinStep("rst", "high"), DelayStep(10), PinStep("rst", "low"), DelayStep(10),
       PinStep("rst", "high") >>
InitSucceeded == last.op = "init" /\ last.res = "ok"

\* C7 as stated: the trace of a successful init is the fifteen instructions
\* from sleep-out to display-on, in order, with 200 ms after sleep-out and
\* display-on only, followed by the configured orientation.
C7_AsClaimed ==
    InitSucceeded
        => InstructionTuples(trace)
               = SleepOutToDisplayOn(inverted, rgb) \o OrientationTuple(orientation, rgb)

\* C7 amended: after the hard reset, the trace of a successful init is
\* sixteen instructions, the software reset with its 200 ms delay and then
\* the fifteen from sleep-out to display-on, followed by the configured
\* orientation; it is fixed by inverted, rgb and orientation alone and no
\* write in it fails.
C7_InitTrace ==
    InitSucceeded
        => /\ InstructionTuples(trace)
                  = ResetTuple \o SleepOutToDisplayOn(inverted, rgb)
                        \o OrientationTuple(orientation, rgb)
           /\ TuplesAreWhole(trace)
           /\ SubSeq(trace, 1, 5) = HardResetEvents
           /\ trace[6].kind = "dc" /\ trace[7].kind = "write"
           /\ \A i \in 1 .. Len(trace) : ~IsFailedWrite(trace[i])

\* C7 witness: a successful init of an inverted BGR panel in an orientation
\* that is not the default
C7_Witness ==
    /\ InitSucceeded
    /\ inverted /\ rgb = "BGR" /\ orientation = "PortraitSwapped"
    /\ Len(InstructionTuples(trace)) = 17

\* The window parameters a u16 pair is transmitted as
WindowBytes(a, b) == << a \div 256, a % 256, b \div 256, b % 256 >>
\* A trace has no event besides transport writes and the data/command pin
OnlyWritesAndDc(tr) == \A i \in 1 .. Len(tr) : tr[i].kind \in {"write", "dc"}

\* C8: a successful flush transmits exactly column-address-set with its
\* window bytes, row-address-set with its window bytes (the window
\* (0,0)-(WIDTH-1,HEIGHT-1), moved by the offset, as 16-bit values), the
\* memory-write opcode and one data write of the whole buffer, in this
\* order, and leaves the buffer as it was.
C8_FlushEmits ==
    (last.op = "flush" /\ last.res = "ok")
        => /\ WritesOf(trace)
                  = << << "low", << 42 >> >>,
                       << "high", WindowBytes(dx % U16, (WIDTH + U16 - 1 + dx) % U16) >>,
                       << "low", << 43 >> >>,
                       << "high", WindowBytes(dy % U16, (HEIGHT + U16 - 1 + dy) % U16) >>,
                       << "low", << 44 >> >>,
                       << "high", [i \in 1 .. N |-> buffer[i - 1]] >> >>
           /\ OnlyWritesAndDc(trace)
           /\ \A i \in 1 .. Len(trace) : ~IsFailedWrite(trace[i])
           /\ buffer = last.pre
           /\ ~panicked

\* C8 witness: a successful flush of a correctly sized, cleared buffer of a
\* panel that is not square, with an offset that differs on the two axes
C8_Witness ==
    /\ last.op = "flush" /\ last.res = "ok"
    /\ CHECK_N /\ N > 0 /\ WIDTH # HEIGHT
    /\ dx = 1 /\ dy = 2
    /\ buffer # ZeroBuffer(N)
    /\ Len(WritesOf(trace)) = 6

\* The arguments of the set_address_window call that last ran
ArgSx == last.args[1]
ArgSy == last.args[2]
ArgEx == last.args[3]
ArgEy == last.args[4]
\* The transmission the specification gives a window: the true sums
TrueSumsTransmitted ==
    /\ ~panicked
    /\ last.res = "ok"
    /\ ArgSx + dx < U16 /\ ArgEx + dx < U16 /\ ArgSy + dy < U16 /\ ArgEy + dy < U16
    /\ WritesOf(trace)
           = << << "low", << 42 >> >>,
                << "high", WindowBytes(ArgSx + dx, ArgEx + dx) >>,
                << "low", << 43 >> >>,
                << "high", WindowBytes(ArgSy + dy, ArgEy + dy) >> >>

\* C9: for all u16 sx, sy, ex, ey and every offset, set_address_window on a
\* transport that accepts every write completes without panic and transmits
\* column-address-set with sx+dx, ex+dx and row-address-set with sy+dy,
\* ey+dy, big-endian, the values being the true sums.
C9_TrueSums ==
    (last.op = "set_address_window" /\ last.res # "comm") => TrueSumsTransmitted

\* What set_address_window does establish: the claim for the windows whose
\* four sums fit 16 bits
TrueSumsWhenInRange ==
    (last.op = "set_address_window" /\ last.res # "comm"
        /\ ArgSx + dx < U16 /\ ArgEx + dx < U16 /\ ArgSy + dy < U16 /\ ArgEy + dy < U16)
        => TrueSumsTransmitted

\* C10: when a transport write fails during init, the failed write is the
\* last event of the trace (no later instruction, parameter or delay, no
\* second attempt), everything before it is the trace of a successful init
\* up to that write, and init returns the communication error.
C10_InitStopsAtFailure ==
    (last.op = "init" /\ \E i \in 1 .. Len(trace) : IsFailedWrite(trace[i]))
        => /\ last.res = "comm"
           /\ IsFailedWrite(trace[Len(trace)])
           /\ Len(SelectSeq(trace, IsFailedWrite)) = 1
           /\ LET whole == Run(init_steps(inverted, rgb, orientation), "high", 0).trace
              IN  /\ Len(trace) <= Len(whole)
                  /\ SubSeq(whole, 1, Len(trace) - 1) = SubSeq(trace, 1, Len(trace) - 1)
                  /\ [trace[Len(trace)] EXCEPT !.ok = TRUE] = whole[Len(trace)]
           /\ ~panicked

\* C10 witness: the write that fails is the parameter of the final
\* orientation command
C10_Witness ==
    /\ last.op = "init" /\ last.res = "comm"
    /\ Len(InstructionTuples(trace)) = 17
    /\ IsFailedWrite(trace[Len(trace)])
    /\ trace[Len(trace)].level = "high"

(***************************************************************************)
(* Claims about the orientation (checked under SpecOrient).                *)
(***************************************************************************)
\* The control byte the specification gives an orientation
ControlByte(o) ==
    CASE o = "Portrait" -> 0 [] o = "Landscape" -> 96
      [] o = "PortraitSwapped" -> 192 [] o = "LandscapeSwapped" -> 160
\* The RGB/BGR byte of a channel order
ChannelByte(color) == IF color = "BGR" THEN 8 ELSE 0
\* (x, y) is at or beyond the bound orientation o checks
BeyondUnder(o, x, y) ==
    IF o \in {"Landscape", "LandscapeSwapped"} THEN x >= WIDTH ELSE y >= WIDTH
\* What set_pixel(x, y, c) makes of buffer `pre` under orientation o: the
\* bound check of o, the index formula of o, the drop at the end of the
\* buffer
PixelWriteUnder(o, pre, x, y, c) ==
    LET landscape == o \in {"Landscape", "LandscapeSwapped"}
        beyond == IF landscape THEN x >= WIDTH ELSE y >= WIDTH
        off == IF landscape THEN 2 * (y * WIDTH + x) ELSE 2 * (y * HEIGHT + x)
    IN  IF beyond \/ off + 1 >= N THEN pre
        ELSE [i \in 0 .. N - 1 |->
                 IF i = off THEN c \div 256 ELSE IF i = off + 1 THEN c % 256 ELSE pre[i]]

\* C11: a successful set_orientation(o) transmits memory-access-control
\* with the one parameter byte (control byte of o | RGB/BGR byte) and stores
\* o; a set_pixel leaves the stored orientation alone and writes by the
\* bound check and index formula of the orientation stored before it (on an
\* empty buffer it panics exactly when that bound check lets it through).
C11_OrientationTakesEffect ==
    [][/\ (last'.op = "set_orientation" /\ last'.res = "ok")
            => /\ WritesOf(trace')
                      = << << "low", << 54 >> >>,
                           << "high", << ControlByte(last'.args[1]) + ChannelByte(rgb) >> >> >>
               /\ orientation' = last'.args[1]
               /\ buffer' = buffer
       /\ last'.op = "set_pixel"
            => /\ orientation' = orientation
               /\ IF N > 0
                  THEN buffer' = PixelWriteUnder(orientation, buffer, last'.args[1],
                                                 last'.args[2], last'.args[3])
                  ELSE /\ buffer' = buffer
                       /\ panicked' = ~BeyondUnder(orientation, last'.args[1],
                                                    last'.args[2])
      ]_vars

\* C11 witness: a pixel stored by the Portrait formula, off the first row,
\* on a driver that was constructed in Landscape
C11_Witness ==
    /\ last.op = "set_pixel"
    /\ orientation = "Portrait" /\ frame.orientation = "Landscape"
    /\ rgb = "BGR"
    /\ ArgY >= 1 /\ CHECK_N
    /\ buffer # last.pre
    /\ buffer = PixelWriteUnder("Portrait", last.pre, ArgX, ArgY, ArgColor)
    /\ buffer # PixelWriteUnder("Landscape", last.pre, ArgX, ArgY, ArgColor)

(***************************************************************************)
(* Claims about the offset and the flushes (checked under SpecFlush).      *)
(***************************************************************************)
\* C12: set_offset(dx, dy) stores the offset and does nothing else: no
\* event on the transport or the pins, the two lines, the framebuffer, the
\* orientation and the RGB/inverted settings as they were; and the window
\* bytes of the next successful set_address_window or flush are taken from
\* the stored offset.
C12_SetOffsetOnlyStores ==
    [][/\ last'.op = "set_offset"
            => /\ dx' = last'.args[1] /\ dy' = last'.args[2]
               /\ trace' = << >>
               /\ dc' = dc /\ rst' = rst
               /\ buffer' = buffer /\ frame' = frame
               /\ orientation' = orientation /\ rgb' = rgb /\ inverted' = inverted
               /\ ~panicked'
       /\ (last'.op = "set_address_window" /\ last'.res = "ok")
            => /\ WritesOf(trace')[2][2]
                      = WindowBytes((last'.args[1] + dx) % U16, (last'.args[3] + dx) % U16)
               /\ WritesOf(trace')[4][2]
                      = WindowBytes((last'.args[2] + dy) % U16, (last'.args[4] + dy) % U16)
       /\ (last'.op = "flush" /\ last'.res = "ok")
            => /\ WritesOf(trace')[2][2]
                      = WindowBytes(dx % U16, (WIDTH + U16 - 1 + dx) % U16)
               /\ WritesOf(trace')[4][2]
                      = WindowBytes(dy % U16, (HEIGHT + U16 - 1 + dy) % U16)
      ]_vars

\* C12 witness: an offset stored on a driver whose buffer has been cleared
\* to a color
C12_Witness ==
    /\ last.op = "set_offset"
    /\ dx = 1 /\ dy = 2
    /\ N > 0 /\ buffer # ZeroBuffer(N)
    /\ trace = << >>

\* The position of the failed write of a trace (0: no write failed)
FailedAt(tr) ==
    LET failed == {i \in 1 .. Len(tr) : IsFailedWrite(tr[i])}
    IN  IF failed = {} THEN 0 ELSE Least(failed)
\* What flush would do in the current state on a transport that fails the
\* write at position failAt
FlushHere(failAt) ==
    Run(flush_steps(WIDTH, HEIGHT, dx, dy, overflow_checks, Bytes(buffer, N)),
        "high", failAt)

\* C13: flush_buffer(b) produces the events flush would produce in the same
\* state on the same transport (the same window parameters with the current
\* offset, the same memory-write opcode, the same data/command line
\* changes), except that the one pixel write carries the bytes of b; the
\* owned buffer is not modified.
C13_FlushBufferAsFlush ==
    last.op = "flush_buffer"
        => LET ref == FlushHere(FailedAt(trace))
           IN  /\ last.res = ref.res
               /\ Len(trace) = Len(ref.trace)
               /\ \A i \in 1 .. Len(trace) :
                      IF trace[i].carries = "pixels"
                      THEN /\ trace[i].bytes = last.args[1]
                           /\ trace[i] = [ref.trace[i] EXCEPT !.bytes = last.args[1]]
                      ELSE trace[i] = ref.trace[i]
               /\ last.res = "ok"
                      => /\ Len(WritesOf(trace)) = 6
                         /\ WritesOf(trace)[6] = << "high", last.args[1] >>
               /\ buffer = last.pre

\* C13 witness: a successful flush_buffer of bytes that differ from the
\* owned, cleared buffer, on a panel that is not square, with an offset
C13_Witness ==
    /\ last.op = "flush_buffer" /\ last.res = "ok"
    /\ CHECK_N /\ N > 0 /\ WIDTH # HEIGHT
    /\ dx = 1 /\ dy = 2
    /\ buffer # ZeroBuffer(N)
    /\ last.args[1] # << >>
    /\ last.args[1] # Bytes(buffer, N)
    /\ WritesOf(trace)[6][2] = last.args[1]

(***************************************************************************)
(* Claims about the drawing-surface adapter (checked under SpecDraw).      *)
(***************************************************************************)
\* The pixel list of the draw_iter call that last ran
ArgPixels == last.args[1]
\* The raw 16-bit value of an Rgb565 color
RawValue(color) == color.r * 2048 + color.g * 32 + color.b
\* A position lies in the declared bounding box
InBox(pos) == 0 <= pos[1] /\ pos[1] < WIDTH /\ 0 <= pos[2] /\ pos[2] < HEIGHT
\* The buffer after the pixels i .. of the list that lie in the box were
\* applied to `pre` in order, each as set_pixel(x, y, raw value)
RECURSIVE AppliedInOrder(_, _, _)
AppliedInOrder(pre, pixels, i) ==
    IF i > Len(pixels) THEN pre
    ELSE AppliedInOrder(
             IF InBox(pixels[i][1])
             THEN PixelWriteUnder(orientation, pre, pixels[i][1][1], pixels[i][1][2],
                                  RawValue(pixels[i][2]))
             ELSE pre,
             pixels, i + 1)

\* C14: draw_iter reports success for every pixel list, and its buffer is
\* the one the points inside the bounding box give when applied in order as
\* set_pixel(x, y, raw value) (points outside it change nothing).
C14_DrawIterSucceeds ==
    last.op = "draw_iter"
        => /\ last.res = "ok"
           /\ ~panicked
           /\ buffer = AppliedInOrder(last.pre, ArgPixels, 1)

\* What draw_iter does establish: the claim on every buffer that is not
\* empty
DrawIterWhenNotEmpty == N > 0 => C14_DrawIterSucceeds

(***************************************************************************)
(* Claims about the Frame (checked under SpecPair).                        *)
(***************************************************************************)
\* C15: a Frame and a driver of the same width, height, orientation and
\* initial buffer hold byte-identical buffers after any sequence of the same
\* set_pixel and clear calls.
C15_FrameMatchesDriver ==
    last.op \in {"set_pixel_on_both", "clear_on_both"}
        => /\ DOMAIN frame.buffer = DOMAIN buffer
           /\ frame.buffer = buffer

\* What the two do establish: identical buffers in Landscape and
\* LandscapeSwapped, and in the Portrait orientations when WIDTH <= HEIGHT
\* and the buffer has no room past the panel (the rows the Frame lets
\* through and the driver rejects then fall off the end of the buffer)
FrameMatchesOutsideWidePortrait ==
    (IsLandscape \/ (WIDTH <= HEIGHT /\ N <= BUFFER_SIZE + 1))
        => C15_FrameMatchesDriver

(***************************************************************************)
(* Claims about the wire (checked under SpecWire, SpecInit and SpecFlush). *)
(***************************************************************************)
\* The position of the write before position i of a trace (0: none)
WriteBefore(tr, i) ==
    LET before == {j \in 1 .. i - 1 : tr[j].kind = "write"}
    IN  IF before = {} THEN 0 ELSE CHOOSE j \in before : \A k \in before : k <= j

\* C16: in the trace of every method, complete or cut short, a write that
\* carries an instruction opcode is one byte made with the data/command
\* line low, a write that carries parameters or pixel data is made with the
\* line high, and a write of parameters directly follows the write of its
\* opcode (the parameters of one instruction are one write).
C16_LineDiscipline ==
    \A i \in 1 .. Len(trace) :
        trace[i].kind = "write"
            => /\ trace[i].carries \in {"opcode", "params", "pixels"}
               /\ trace[i].carries = "opcode"
                      => trace[i].level = "low" /\ Len(trace[i].bytes) = 1
               /\ trace[i].carries \in {"params", "pixels"} => trace[i].level = "high"
               /\ trace[i].carries \in {"params", "pixels"}
                      => /\ WriteBefore(trace, i) # 0
                         /\ trace[WriteBefore(trace, i)].carries = "opcode"

\* C16 witness: a flush cut short by the failure of the row parameters,
\* which were written with the line high
C16_Witness ==
    /\ last.op = "flush" /\ last.res = "comm"
    /\ Len(WritesOf(trace)) = 4
    /\ trace[Len(trace)].carries = "params"
    /\ trace[Len(trace)].level = "high"
    /\ orientation = "Landscape"

\* An event without what the transport was handed: the pin and its level,
\* or the delay and its length
PinOrDelay(e) == IF e.kind = "delay" THEN << "delay", e.ms >> ELSE << e.kind, e.level >>
\* The hard reset as the specification gives it
HighLowHigh ==
    << << "rst", "high" >>, << "delay", 10 >>, << "rst", "low" >>, << "delay", 10 >>,
       << "rst", "high" >> >>

\* C17: hard_reset is exactly: reset line high, 10 ms, low, 10 ms, high;
\* and the trace of every init, complete or cut short, opens with that
\* whole sequence, the reset line is left high, and no transport write is
\* among its five events.
C17_HardResetFirst ==
    /\ last.op = "hard_reset"
           => /\ [i \in 1 .. Len(trace) |-> PinOrDelay(trace[i])] = HighLowHigh
              /\ rst = "high"
              /\ last.res = "ok"
    /\ last.op = "init"
           => /\ Len(trace) >= 5
              /\ [i \in 1 .. 5 |-> PinOrDelay(trace[i])] = HighLowHigh
              /\ \A i \in 6 .. Len(trace) : trace[i].kind # "rst"
              /\ rst = "high"
              /\ OpcodePositions(trace) # {} => Least(OpcodePositions(trace)) = 7

\* C17 witness: an init whose very first instruction byte fails, right
\* after the complete hard reset
C17_Witness ==
    /\ last.op = "init" /\ last.res = "comm"
    /\ Len(trace) = 7
    /\ IsFailedWrite(trace[7])
    /\ rst = "high"

Flushes == {"flush", "flush_buffer", "flush_frame"}
\* The writes of a trace with whether the transport accepted them
WritesWithOutcome(tr) ==
    LET w == SelectSeq(tr, IsWrite)
    IN  [i \in 1 .. Len(w) |-> << w[i].level, w[i].bytes, w[i].ok >>]
\* The five writes that open the full-panel window under offset (odx, ody)
\* and announce the pixel data, all accepted
WindowThenMemoryWrite(odx, ody) ==
    << << "low", << 42 >>, TRUE >>,
       << "high", WindowBytes(odx % U16, (WIDTH + U16 - 1 + odx) % U16), TRUE >>,
       << "low", << 43 >>, TRUE >>,
       << "high", WindowBytes(ody % U16, (HEIGHT + U16 - 1 + ody) % U16), TRUE >>,
       << "low", << 44 >>, TRUE >> >>
\* In a trace, a pixel write is the sixth write, after exactly those five
PixelsFollowWindow(tr, odx, ody) ==
    \A i \in 1 .. Len(tr) :
        tr[i].carries = "pixels"
            => /\ Len(SelectSeq(SubSeq(tr, 1, i), IsWrite)) = 6
               /\ SubSeq(WritesWithOutcome(tr), 1, 5) = WindowThenMemoryWrite(odx, ody)

\* C18: in every flush, flush_buffer and flush_frame, also the one that
\* follows a failed flush, the pixel write comes after column-address-set
\* and row-address-set for the full panel and the memory-write opcode, all
\* of that same call and all accepted, with no other write in between; a
\* successful call does stream the pixels.
C18_WindowBeforePixels ==
    [][last'.op \in Flushes
           => /\ PixelsFollowWindow(trace', dx, dy)
              /\ last'.res = "ok" => trace'[Len(trace')].carries = "pixels"
              /\ (last.op \in Flushes /\ last.res = "comm" /\ last'.res = "ok")
                     => SubSeq(WritesWithOutcome(trace'), 1, 5)
                            = WindowThenMemoryWrite(dx, dy)
      ]_vars

\* C18 witness: a flush_frame given up at the memory-write opcode: five
\* writes, no pixel byte
C18_Witness ==
    /\ last.op = "flush_frame" /\ last.res = "comm"
    /\ Len(WritesOf(trace)) = 5
    /\ WritesOf(trace)[5] = << "low", << 44 >> >>
    /\ IsFailedWrite(trace[Len(trace)])
    /\ \A i \in 1 .. Len(trace) : trace[i].carries # "pixels"
    /\ dx = 1 /\ dy = 2

(***************************************************************************)
(* Claims about the pixel mapping (checked under SpecPixel).               *)
(***************************************************************************)
\* set_pixel stores a pixel at (x, y): it passes the bound check and its
\* two bytes lie in the buffer
Accepted(x, y) == ~BeyondBound(x, y) /\ SlotOffset(x, y) + 1 < N
\* The other coordinates of the panel that set_pixel stores
OtherAccepted(x, y) ==
    {p \in (0 .. WIDTH - 1) \X (0 .. HEIGHT - 1) :
        p # << x, y >> /\ Accepted(p[1], p[2])}

\* C19: a set_pixel at an accepted coordinate of the panel writes a byte
\* pair disjoint from that of every other accepted coordinate of the panel,
\* and leaves the color stored there as it was.
C19_MappingInjective ==
    (last.op = "set_pixel" /\ InPanel(ArgX, ArgY) /\ Accepted(ArgX, ArgY))
        => \A p \in OtherAccepted(ArgX, ArgY) :
               /\ SlotOffset(p[1], p[2]) # SlotOffset(ArgX, ArgY)
               /\ buffer[SlotOffset(p[1], p[2])] = last.pre[SlotOffset(p[1], p[2])]
               /\ buffer[SlotOffset(p[1], p[2]) + 1]
                      = last.pre[SlotOffset(p[1], p[2]) + 1]

\* What the mapping does establish: it is injective in the Landscape
\* orientations, and in the Portrait ones when WIDTH <= HEIGHT
InjectiveOutsideWidePortrait ==
    (IsLandscape \/ WIDTH <= HEIGHT) => C19_MappingInjective

(***************************************************************************)
(* Claims about the stored orientation (checked under SpecInit).           *)
(***************************************************************************)
\* The parameter byte of the last memory-access-control instruction of a
\* trace
LastMadctlParam(tr) ==
    LET t == InstructionTuples(tr)
        ks == {k \in 1 .. Len(t) : t[k][1] = 54}
        k == CHOOSE m \in ks : \A j \in ks : j <= m
    IN  t[k][2][1]

\* C20: when init or set_orientation returns Ok, the last
\* memory-access-control parameter it transmitted is (control byte of the
\* stored orientation | RGB/BGR byte); a set_orientation that returns an
\* error leaves the stored orientation as it was, and so do init and
\* hard_reset.
C20_StoredMatchesController ==
    [][/\ (last'.op \in {"init", "set_orientation"} /\ last'.res = "ok")
            => LastMadctlParam(trace') = ControlByte(orientation') + ChannelByte(rgb')
       /\ (last'.op = "set_orientation" /\ last'.res # "ok")
            => orientation' = orientation
       /\ last'.op \in {"init", "hard_reset"} => orientation' = orientation
      ]_vars

\* C20 witness: a set_orientation to another orientation whose parameter
\* write failed, the stored orientation still the old one
C20_Witness ==
    /\ last.op = "set_orientation" /\ last.res = "comm"
    /\ last.args[1] = "LandscapeSwapped" /\ orientation = "Portrait"
    /\ Len(WritesOf(trace)) = 2
    /\ rgb = "BGR"

=============================================================================
